---- MODULE Spec2Model ----
(***************************************************************************)
(* Surface-crunching engines of the loss-landscape explorer:               *)
(*   crunch, crunch_2                       (loss_landscape/plot_surface)  *)
(*   crunch_hessian_eigs, crunch_hessian_eigs_2  (plot_hessian_eigen)      *)
(* One behaviour is a sequence of runs of one engine, with one             *)
(* configuration, against one surface file.                                *)
(***************************************************************************)
EXTENDS Integers, Sequences, FiniteSets, TLC

\* ------------------------------------------------------------------ bounds
MaxCells == 4
MaxProc == 2
MaxRuns == 2
MaxFaults == 1

\* ------------------------------------------------- constants of the code
\* -np.ones(shape): the initial value of a loss and of an accuracy field
LossInit == -1
\* max_eig = -np.ones(shape)
MaxEigInit == -1
\* min_eig = np.ones(shape)
MinEigInit == 1

\* The value get_job_indices takes for "not yet computed".
Sentinel == LossInit

\* ------------------------------------------------------------ the engines
SyncEngines == {"crunch", "crunch_hessian_eigs"}
SeqEngines == {"crunch_2", "crunch_hessian_eigs_2"}
LossEngines == {"crunch", "crunch_2"}
Engines == SyncEngines \cup SeqEngines

\* plot_surface: the dataloaders given and the keys built from them
KeyChoices == { <<"train">>, <<"train", "test">> }
LossKey(s) == IF s = "train" THEN "train_loss" ELSE "test_loss"
AccKey(s) == IF s = "train" THEN "train_acc" ELSE "test_acc"

\* (variant: shape = xcoordinates.shape, the y axis ignored)
NumCellsX(g) == g[1]

\* ------------------------------------------------------------------ grids
\* A grid is <<xnum, ynum>>; ynum = 0 stands for a file with no ycoordinates.
NumCells(g) == IF g[2] = 0 THEN g[1] ELSE g[1] * g[2]
Grids == { g \in (1..MaxCells) \X (0..MaxCells) : NumCells(g) <= MaxCells }
Cells(g) == 0 .. (NumCells(g) - 1)

\* (variant: np.zeros in place of the signed np.ones)
FilledZeros(g, v) == [c \in Cells(g) |-> 0]

\* np.ones(shape) * v, seen through ravel(): a flat array over the grid
Filled(g, v) == [c \in Cells(g) |-> v]

\* np.linspace is strictly increasing for xmin < xmax: coordinate x[i] is
\* represented by its position i, a 2-D coordinate by <<i, j>>.
CoordOfCell(g, c) == IF g[2] = 0 THEN <<c>> ELSE <<c \div g[2], c % g[2]>>
CellOfCoord(g, xy) == IF g[2] = 0 THEN xy[1] ELSE xy[1] * g[2] + xy[2]

\* (variant: the stacked meshgrid flattened without the transpose order,
\* x running fastest)
MeshCoordXFastest(g, k) == IF g[2] = 0 THEN <<k>> ELSE <<k % g[1], k \div g[1]>>

\* np.array(np.meshgrid(x, y)).T.reshape(-1, 2)[k]:
\* meshgrid gives X[j][i] = x[i], Y[j][i] = y[j]; the transpose of the
\* stacked (2, ynum, xnum) array is (xnum, ynum, 2), row-major flattened.
MeshCoord(g, k) == IF g[2] = 0 THEN <<k>> ELSE <<k \div g[2], k % g[2]>>

Max2(a, b) == IF a >= b THEN a ELSE b
Min2(a, b) == IF a <= b THEN a ELSE b
RECURSIVE SetMax(_)
SetMax(S) == IF Cardinality(S) = 1 THEN CHOOSE x \in S : TRUE
             ELSE LET x == CHOOSE y \in S : TRUE
                  IN Max2(x, SetMax(S \ {x}))
RECURSIVE SetMin(_)
SetMin(S) == IF Cardinality(S) = 1 THEN CHOOSE x \in S : TRUE
             ELSE LET x == CHOOSE y \in S : TRUE
                  IN Min2(x, SetMin(S \ {x}))

\* ------------------------------------------------------------- scheduler
\* get_job_indices(vals, xcoordinates, ycoordinates, comm)
UnfilledSet(vals) == { c \in DOMAIN vals : vals[c] = Sentinel }
RECURSIVE Ascending(_)
Ascending(S) == IF S = {} THEN <<>>
                ELSE LET m == SetMin(S) IN <<m>> \o Ascending(S \ {m})
UnfilledIndices(vals) == Ascending(UnfilledSet(vals))
\* (variant: contiguous blocks, the first ranks taking one more)
RoundRobinBlocks(u, r, P) ==
    LET q == Len(u) \div P
        m == Len(u) % P
        n == IF r < m THEN q + 1 ELSE q
        s == r * q + (IF r < m THEN r ELSE m)
    IN [i \in 1..n |-> u[s + i]]

\* (variant: the offsets are handed out from the last rank down)
RoundRobinReversed(u, r, P) ==
    LET o == P - 1 - r
        n == IF Len(u) > o THEN (Len(u) - o + P - 1) \div P ELSE 0
    IN [i \in 1..n |-> u[o + (i - 1) * P + 1]]

\* worker r of P receives every P-th unfilled index starting at offset r
RoundRobin(u, r, P) == LET n == IF Len(u) > r THEN (Len(u) - r + P - 1) \div P ELSE 0
                       IN [i \in 1..n |-> u[r + (i - 1) * P + 1]]
JobIndices(vals, r, P) == RoundRobin(UnfilledIndices(vals), r, P)
JobCounts(vals, P) == [r \in 0..(P - 1) |-> Len(JobIndices(vals, r, P))]
JobCoords(g, inds) == [i \in 1..Len(inds) |-> CoordOfCell(g, inds[i])]

\* ------------------------------------------------------------ mpi4pytorch
\* reduce_max / reduce_min over the arrays posted by all ranks
ReduceMaxAll(posts) == LET a0 == posts[CHOOSE r \in DOMAIN posts : TRUE]
                       IN [c \in DOMAIN a0 |-> SetMax({posts[r][c] : r \in DOMAIN posts})]
ReduceMinAll(posts) == LET a0 == posts[CHOOSE r \in DOMAIN posts : TRUE]
                       IN [c \in DOMAIN a0 |-> SetMin({posts[r][c] : r \in DOMAIN posts})]

\* ------------------------------------------------------------------ state
VARIABLES
    engine,     \* which crunch function the caller selected
    nproc,      \* comm.Get_size(); 1 for the engines run without MPI
    grid,       \* <<xnum, ynum>> of the coordinates stored in the file
    keys,       \* the dataloaders given to the loss engines, in order
    special,    \* the evaluator: <<cell, kind>> of its one unusual result
    ndirs,      \* len(d): how many directions the direction file holds
    run,        \* how many runs were started against this file
    prev,       \* how the run before the current one ended
    faults,     \* how many evaluator calls have raised
    f,          \* the surface file: dataset name -> flat array
    f0,         \* the surface file as it was when the current run started
    pc,         \* per rank: where the rank is in the engine
    mem,        \* per rank: losses, accuracies / max_eig, min_eig
    inds,       \* per rank: inds of get_job_indices / range(size)
    coords,     \* per rank: coords
    inds_nums,  \* per rank: inds_nums
    count,      \* per rank: the loop counter over inds
    kidx,       \* per rank: position in zip(dataloaders, loss_keys, acc_keys)
    phase,      \* per rank: 1 = first reduce of a pair, 2 = second
    extra,      \* per rank: i of the trailing reduce loop
    net,        \* per rank: the coordinate set_weights last loaded; <<>> = none
    post,       \* per rank: the array handed to a pending collective reduce
    evals,      \* per rank: the <<cell of the loaded coordinate, pair>> of its evaluator calls
    writes,     \* ranks that wrote, or tried to write, to the file in this run
    unflushed,  \* the arrays were written back and the file was not flushed since
    job,        \* one call of get_job_indices: its arguments and its result
    surf,       \* the surface file as setup_surface_file sees it
    args,       \* the arguments of the last setup_surface_file call
    ret,        \* how the last setup_surface_file call ended
    entry,      \* one call of an entry point: its arguments, position and effects
    batch,      \* one call of plot_hessian_eigen_models
    mesh,       \* the coordinate list of an engine without reduction, being built
    boot,       \* the ranks of one job between get_net and the engine
    loop,       \* the cell loop of an engine called with some args.dir_type
    plist,      \* one call of plot_surface_list
    fit,        \* one call of train
    stopper     \* a StopTrainingCallback over the validation epochs of one fit

\* what is outside the engine run under study
callvars == <<job, surf, args, ret, entry>>
drivervars == <<batch, mesh, boot>>
latevars == <<loop, plist, fit, stopper>>
sidevars == <<callvars, drivervars, latevars>>
cfgvars == <<engine, nproc, grid, keys, special, ndirs, sidevars>>
wvars == <<pc, mem, inds, coords, inds_nums, count, kidx, phase, extra, net, post>>
vars == <<cfgvars, run, prev, faults, f, f0, wvars, evals, writes, unflushed>>

Ranks == 0 .. (nproc - 1)
NoPost == [name |-> "none"]

\* rank == 0 opens the file 'r+', every other rank 'r'
CanWrite(r) == r = 0

Put(fn, k, v) == [x \in (DOMAIN fn) \cup {k} |-> IF x = k THEN v ELSE fn[x]]
SetCell(a, c, v) == [a EXCEPT ![c] = v]

NumPairs == IF engine \in LossEngines THEN Len(keys) ELSE 1

\* ------------------------------------------------------------- evaluator
\* The evaluator is stateless: its result is a function of the parameters
\* loaded in the net (base + coord * d, one-to-one in the coordinate) and of
\* the dataloader.
DataIdx(s) == IF s = "train" THEN 1 ELSE 2
NetCell(xy) == IF xy = <<>> THEN MaxCells + 1 ELSE CellOfCoord(grid, xy)
IsSpecial(xy) == xy # <<>> /\ special[1] = CellOfCoord(grid, xy)
LossAt(xy, s) == IF IsSpecial(xy) THEN (IF special[2] = "sentinel" THEN -1 ELSE -2)
                 ELSE 10 * DataIdx(s) + NetCell(xy)
AccAt(xy, s) == IF IsSpecial(xy) THEN (IF special[2] = "sentinel" THEN -1 ELSE -2)
                ELSE 50 + 10 * DataIdx(s) + NetCell(xy)
MaxEigAt(xy) == IF IsSpecial(xy) THEN (IF special[2] = "sentinel" THEN -1 ELSE -2)
                ELSE 10 + NetCell(xy)
MinEigAt(xy) == IF IsSpecial(xy) THEN (IF special[2] = "sentinel" THEN 1 ELSE 2)
                ELSE 0 - (10 + NetCell(xy))

\* The unusual result, if any, is at one of the first two cells: a cell of
\* rank 0 or a cell of rank 1.
Evaluators(g) == {<<0 - 1, "plain">>} \cup ((Cells(g) \cap {0, 1}) \X {"sentinel", "below"})

\* ------------------------------------------------------------------- Init
\* the locals of every rank when the engine is entered
Fresh(P, v) == [r \in 0..(P - 1) |-> v]

\* no run has started against the file
RunInit ==
    /\ run = 1
    /\ prev = "none"
    /\ faults = 0
    /\ f = <<>>
    /\ f0 = <<>>
    /\ pc = Fresh(nproc, "open")
    /\ mem = Fresh(nproc, <<>>)
    /\ inds = Fresh(nproc, <<>>)
    /\ coords = Fresh(nproc, <<>>)
    /\ inds_nums = Fresh(nproc, <<>>)
    /\ count = Fresh(nproc, 0)
    /\ kidx = Fresh(nproc, 1)
    /\ phase = Fresh(nproc, 1)
    /\ extra = Fresh(nproc, 0)
    /\ net = Fresh(nproc, <<>>)
    /\ post = Fresh(nproc, NoPost)
    /\ evals = Fresh(nproc, {})
    /\ writes = {}
    /\ unflushed = FALSE

\* a side call that is not under study
Off == <<>>
DriversOff == batch = Off /\ mesh = Off /\ boot = Off
CallsOff == job = Off /\ surf = Off /\ args = Off /\ ret = Off /\ entry = Off
LateOff == loop = Off /\ plist = Off /\ fit = Off /\ stopper = Off

\* setup_surface_file has written the coordinates; no field exists yet.
Init ==
    /\ engine \in Engines
    /\ nproc \in (IF engine \in SyncEngines THEN 1..MaxProc ELSE {1})
    /\ grid \in Grids
    /\ keys \in (IF engine \in LossEngines THEN KeyChoices ELSE {<<>>})
    /\ special \in Evaluators(grid)
    /\ ndirs \in {1, 2}
    /\ job = Off
    /\ surf = Off /\ args = Off /\ ret = Off /\ entry = Off
    /\ DriversOff
    /\ LateOff
    /\ RunInit

\* ---------------------------------------------------- opening the file
\* f = h5py.File(surf_file, 'r+' if rank == 0 else 'r'); xcoordinates,
\* ycoordinates and shape are read from it
Open(r) ==
    /\ pc[r] = "open"
    /\ pc' = [pc EXCEPT ![r] = "init"]
    /\ kidx' = [kidx EXCEPT ![r] = 1]
    /\ UNCHANGED <<cfgvars, run, prev, unflushed, faults, f, f0, mem, inds, coords, inds_nums,
                   count, phase, extra, net, post, evals, writes>>

\* ----------------------------------------------------- field initialisation
\* crunch / crunch_2: one turn of "for loss_key, acc_key in zip(...)".
\* Creating a dataset needs write intent on the file: on a file opened 'r'
\* the assignment f[loss_key] = ... raises. Reading a dataset that is not in
\* the file raises as well.
AfterInit(r) == IF engine \in SyncEngines THEN "partition" ELSE "mesh"
InitLossPair(r) ==
    /\ pc[r] = "init"
    /\ engine \in LossEngines
    /\ LET s == keys[kidx[r]]
           lk == LossKey(s)
           ak == AccKey(s)
           last == kidx[r] = Len(keys)
           next == IF last THEN AfterInit(r) ELSE "init"
       IN IF lk \notin DOMAIN f
          THEN /\ mem' = [mem EXCEPT ![r] =
                            Put(Put(@, lk, Filled(grid, LossInit)), ak, Filled(grid, LossInit))]
               /\ writes' = writes \cup {r}
               /\ IF CanWrite(r) /\ ak \notin DOMAIN f
                  THEN /\ f' = Put(Put(f, lk, Filled(grid, LossInit)), ak, Filled(grid, LossInit))
                       /\ pc' = [pc EXCEPT ![r] = next]
                  ELSE /\ f' = f
                       /\ pc' = [pc EXCEPT ![r] = "raised"]
          ELSE /\ writes' = writes
               /\ f' = f
               /\ IF ak \in DOMAIN f
                  THEN /\ mem' = [mem EXCEPT ![r] = Put(Put(@, lk, f[lk]), ak, f[ak])]
                       /\ pc' = [pc EXCEPT ![r] = next]
                  ELSE /\ mem' = [mem EXCEPT ![r] = Put(@, lk, f[lk])]
                       /\ pc' = [pc EXCEPT ![r] = "raised"]
    /\ kidx' = [kidx EXCEPT ![r] = IF @ = Len(keys) THEN 1 ELSE @ + 1]
    /\ UNCHANGED <<cfgvars, run, prev, unflushed, faults, f0, inds, coords, inds_nums,
                   count, phase, extra, net, post, evals>>

\* crunch_hessian_eigs / crunch_hessian_eigs_2: "if 'min_eig' not in f.keys()"
InitEigs(r) ==
    /\ pc[r] = "init"
    /\ engine \notin LossEngines
    /\ IF "min_eig" \notin DOMAIN f
       THEN /\ mem' = [mem EXCEPT ![r] =
                         Put(Put(@, "max_eig", Filled(grid, MaxEigInit)),
                             "min_eig", Filled(grid, MinEigInit))]
            /\ IF r = 0
               THEN /\ writes' = writes \cup {r}
                    /\ IF "max_eig" \notin DOMAIN f
                       THEN /\ f' = Put(Put(f, "min_eig", Filled(grid, MinEigInit)),
                                        "max_eig", Filled(grid, MaxEigInit))
                            /\ pc' = [pc EXCEPT ![r] = AfterInit(r)]
                       ELSE /\ f' = Put(f, "min_eig", Filled(grid, MinEigInit))
                            /\ pc' = [pc EXCEPT ![r] = "raised"]
               ELSE /\ writes' = writes
                    /\ f' = f
                    /\ pc' = [pc EXCEPT ![r] = AfterInit(r)]
       ELSE /\ writes' = writes
            /\ f' = f
            /\ IF "max_eig" \in DOMAIN f
               THEN /\ mem' = [mem EXCEPT ![r] =
                                 Put(Put(@, "min_eig", f["min_eig"]), "max_eig", f["max_eig"])]
                    /\ pc' = [pc EXCEPT ![r] = AfterInit(r)]
               ELSE /\ mem' = [mem EXCEPT ![r] = Put(@, "min_eig", f["min_eig"])]
                    /\ pc' = [pc EXCEPT ![r] = "raised"]
    /\ UNCHANGED <<cfgvars, run, prev, unflushed, faults, f0, inds, coords, inds_nums,
                   count, kidx, phase, extra, net, post, evals>>

\* ------------------------------------------------------ the list of jobs
\* (variant: the array of the last pair decides)
JobFieldLast == IF engine \in LossEngines THEN LossKey(keys[Len(keys)]) ELSE "max_eig"

\* The array whose unfilled cells decide the jobs:
\* losses[loss_keys[0]] in crunch, max_eig in crunch_hessian_eigs
JobField == IF engine \in LossEngines THEN LossKey(keys[1]) ELSE "max_eig"

\* (variant: every rank takes the whole list, as if comm were not passed)
PartitionUnsplit(r) ==
    /\ pc[r] = "partition"
    /\ LET mine == JobIndices(mem[r][JobField], 0, 1)
       IN /\ inds' = [inds EXCEPT ![r] = mine]
          /\ coords' = [coords EXCEPT ![r] = JobCoords(grid, mine)]
          /\ inds_nums' = [inds_nums EXCEPT ![r] = JobCounts(mem[r][JobField], nproc)]
    /\ count' = [count EXCEPT ![r] = 0]
    /\ pc' = [pc EXCEPT ![r] = "loop"]
    /\ UNCHANGED <<cfgvars, run, prev, unflushed, faults, f, f0, mem, kidx, phase, extra,
                   net, post, evals, writes>>

\* inds, coords, inds_nums = get_job_indices(..., comm)
Partition(r) ==
    /\ pc[r] = "partition"
    /\ LET mine == JobIndices(mem[r][JobField], r, nproc)
       IN /\ inds' = [inds EXCEPT ![r] = mine]
          /\ coords' = [coords EXCEPT ![r] = JobCoords(grid, mine)]
          /\ inds_nums' = [inds_nums EXCEPT ![r] = JobCounts(mem[r][JobField], nproc)]
    /\ count' = [count EXCEPT ![r] = 0]
    /\ pc' = [pc EXCEPT ![r] = "loop"]
    /\ UNCHANGED <<cfgvars, run, prev, unflushed, faults, f, f0, mem, kidx, phase, extra,
                   net, post, evals, writes>>

\* (variant: the engines without MPI take the unfilled cells only)
MeshUnfilled(r) ==
    /\ pc[r] = "mesh"
    /\ LET mine == JobIndices(mem[r][JobField], 0, 1)
       IN /\ inds' = [inds EXCEPT ![r] = mine]
          /\ coords' = [coords EXCEPT ![r] = JobCoords(grid, mine)]
    /\ count' = [count EXCEPT ![r] = 0]
    /\ pc' = [pc EXCEPT ![r] = "loop"]
    /\ UNCHANGED <<cfgvars, run, prev, unflushed, faults, f, f0, mem, inds_nums, kidx, phase,
                   extra, net, post, evals, writes>>

\* crunch_2 / crunch_hessian_eigs_2: coords from meshgrid (or xcoordinates),
\* inds = np.array(range(size))
AllIndices(g) == [i \in 1..NumCells(g) |-> i - 1]
AllCoords(g) == [i \in 1..NumCells(g) |-> MeshCoord(g, i - 1)]
Mesh(r) ==
    /\ pc[r] = "mesh"
    /\ inds' = [inds EXCEPT ![r] = AllIndices(grid)]
    /\ coords' = [coords EXCEPT ![r] = AllCoords(grid)]
    /\ count' = [count EXCEPT ![r] = 0]
    /\ pc' = [pc EXCEPT ![r] = "loop"]
    /\ UNCHANGED <<cfgvars, run, prev, unflushed, faults, f, f0, mem, inds_nums, kidx, phase,
                   extra, net, post, evals, writes>>

\* ---------------------------------------------------------- the cell loop
\* "for count, ind in enumerate(inds)": coord = coords[count], then
\* set_weights / set_states(net, w or s, d, coord)
\* set_weights and set_states fail when the number of directions is not the
\* one the grid needs: 1 for a 1-D grid, 2 for a 2-D grid.
Dim(g) == IF g[2] = 0 THEN 1 ELSE 2
DirectionsFit == ndirs = Dim(grid)
\* (variant: the step is added to what the net holds)
SetWeightsFromNet(old, coord) ==
    IF old = <<>> THEN coord ELSE [i \in DOMAIN coord |-> old[i] + coord[i]]

\* The parameters of the net after set_weights(net, w, d, coord) or
\* set_states(net, s, d, coord): w (or s) + coord * d, computed from the
\* snapshot w, s that get_net took; they are named by the coordinate.
SetWeights(old, coord) == coord
BeginCell(r) ==
    /\ pc[r] = "loop"
    /\ count[r] < Len(inds[r])
    /\ IF DirectionsFit
       THEN /\ net' = [net EXCEPT ![r] = SetWeights(@, coords[r][count[r] + 1])]
            /\ pc' = [pc EXCEPT ![r] = "eval"]
       ELSE /\ net' = net
            /\ pc' = [pc EXCEPT ![r] = "raised"]
    /\ kidx' = [kidx EXCEPT ![r] = 1]
    /\ UNCHANGED <<cfgvars, run, prev, unflushed, faults, f, f0, mem, inds, coords, inds_nums,
                   count, phase, extra, post, evals, writes>>

\* the loop over inds is exhausted
EndLoop(r) ==
    /\ pc[r] = "loop"
    /\ count[r] = Len(inds[r])
    /\ pc' = [pc EXCEPT ![r] = IF engine \in SyncEngines THEN "straggle" ELSE "final"]
    /\ extra' = [extra EXCEPT ![r] = 0]
    /\ UNCHANGED <<cfgvars, run, prev, unflushed, faults, f, f0, mem, inds, coords, inds_nums,
                   count, kidx, phase, net, post, evals, writes>>

Ind(r) == inds[r][count[r] + 1]

\* loss, acc = evaluator(net, dataloader);
\* losses[loss_key].ravel()[ind] = loss; accuracies[acc_key].ravel()[ind] = acc
Recorded(r) ==
    LET s == keys[kidx[r]]
    IN [mem[r] EXCEPT ![LossKey(s)] = SetCell(@, Ind(r), LossAt(net[r], s)),
                      ![AccKey(s)] = SetCell(@, Ind(r), AccAt(net[r], s))]

\* (variant: rank 0 writes the arrays back before the collective calls)
AfterRecordCommit(r) == IF r = 0 THEN "commit" ELSE "reduce"

\* what follows the recording of a pair in crunch: the two reduce_max calls
AfterRecord(r) == "reduce"

EvaluateLoss(r) ==
    /\ pc[r] = "eval"
    /\ engine \in LossEngines
    /\ mem' = [mem EXCEPT ![r] = Recorded(r)]
    /\ evals' = [evals EXCEPT ![r] = @ \cup {<<NetCell(net[r]), kidx[r]>>}]
    /\ IF engine = "crunch"
       THEN /\ pc' = [pc EXCEPT ![r] = AfterRecord(r)]
            /\ phase' = [phase EXCEPT ![r] = 1]
            /\ UNCHANGED <<kidx, count>>
       ELSE /\ phase' = phase
            /\ IF kidx[r] < Len(keys)
               THEN /\ kidx' = [kidx EXCEPT ![r] = @ + 1]
                    /\ UNCHANGED <<pc, count>>
               ELSE /\ pc' = [pc EXCEPT ![r] = "loop"]
                    /\ count' = [count EXCEPT ![r] = @ + 1]
                    /\ kidx' = kidx
    /\ UNCHANGED <<cfgvars, run, prev, unflushed, faults, f, f0, inds, coords, inds_nums,
                   extra, net, post, writes>>

\* maxeig, mineig, iter_count = min_max_hessian_eigs(net, ...);
\* max_eig.ravel()[ind] = maxeig; min_eig.ravel()[ind] = mineig
RecordedEigs(r) ==
    [mem[r] EXCEPT !["max_eig"] = SetCell(@, Ind(r), MaxEigAt(net[r])),
                   !["min_eig"] = SetCell(@, Ind(r), MinEigAt(net[r]))]

EvaluateEigs(r) ==
    /\ pc[r] = "eval"
    /\ engine \notin LossEngines
    /\ mem' = [mem EXCEPT ![r] = RecordedEigs(r)]
    /\ evals' = [evals EXCEPT ![r] = @ \cup {<<NetCell(net[r]), 1>>}]
    /\ IF engine = "crunch_hessian_eigs"
       THEN /\ pc' = [pc EXCEPT ![r] = "reduce"]
            /\ phase' = [phase EXCEPT ![r] = 1]
            /\ count' = count
       ELSE /\ pc' = [pc EXCEPT ![r] = "loop"]
            /\ count' = [count EXCEPT ![r] = @ + 1]
            /\ phase' = phase
    /\ UNCHANGED <<cfgvars, run, prev, unflushed, faults, f, f0, inds, coords, inds_nums,
                   kidx, extra, net, post, writes>>

\* The process of rank 0 is terminated from outside between the two dataset
\* creations of one turn: f[loss_key] = ... is done, f[acc_key] = ... is not
\* (f['min_eig'] and f['max_eig'] in the Hessian engines).
FirstCreated(r) == IF engine \in LossEngines THEN LossKey(keys[kidx[r]]) ELSE "min_eig"
FirstInit == IF engine \in LossEngines THEN LossInit ELSE MinEigInit
KilledInCreate(r) ==
    /\ pc[r] = "init"
    /\ CanWrite(r)
    /\ faults < MaxFaults
    /\ FirstCreated(r) \notin DOMAIN f
    /\ f' = Put(f, FirstCreated(r), Filled(grid, FirstInit))
    /\ faults' = faults + 1
    /\ writes' = writes \cup {r}
    /\ pc' = [pc EXCEPT ![r] = "killed"]
    /\ UNCHANGED <<cfgvars, run, prev, unflushed, f0, mem, inds, coords, inds_nums, count,
                   kidx, phase, extra, net, post, evals>>

\* The evaluator raises: nothing catches it in the engine, the process ends.
EvaluatorRaises(r) ==
    /\ pc[r] = "eval"
    /\ faults < MaxFaults
    /\ faults' = faults + 1
    /\ evals' = [evals EXCEPT ![r] = @ \cup {<<NetCell(net[r]), kidx[r]>>}]
    /\ pc' = [pc EXCEPT ![r] = "raised"]
    /\ UNCHANGED <<cfgvars, run, prev, unflushed, f, f0, mem, inds, coords, inds_nums, count,
                   kidx, phase, extra, net, post, writes>>

\* ------------------------------------------------------ collective reduce
\* The pair whose arrays a rank hands to reduce_max: inside the cell loop the
\* one just evaluated; in the trailing loop the names loss_key / acc_key are
\* what the last "for ... in zip(...)" left in them, the last pair.
ReducePair(r) == IF pc[r] = "reduce" THEN keys[kidx[r]] ELSE keys[Len(keys)]

ReduceName(r) ==
    IF engine \in LossEngines
    THEN (IF phase[r] = 1 THEN LossKey(ReducePair(r)) ELSE AccKey(ReducePair(r)))
    ELSE (IF phase[r] = 1 THEN "max_eig" ELSE "min_eig")

\* reduce_max everywhere, except min_eig = reduce_min(comm, min_eig)
ReduceOp(r) ==
    IF engine \in LossEngines THEN "max"
    ELSE (IF phase[r] = 1 THEN "max" ELSE "min")

\* A rank enters the collective call and blocks in it.
ReducePost(r) ==
    /\ pc[r] \in {"reduce", "sreduce"}
    /\ post[r] = NoPost
    /\ post' = [post EXCEPT ![r] =
                  [name |-> ReduceName(r), op |-> ReduceOp(r), arr |-> mem[r][ReduceName(r)]]]
    /\ UNCHANGED <<cfgvars, run, prev, unflushed, faults, f, f0, pc, mem, inds, coords, inds_nums,
                   count, kidx, phase, extra, net, evals, writes>>

Posted == [q \in Ranks |-> post[q].arr]
Reduced(r) == IF post[r].op = "max" THEN ReduceMaxAll(Posted) ELSE ReduceMinAll(Posted)

\* (variant: the guard is missing, every rank writes)
MayCommitAny(r) == TRUE

\* "if rank == 0:" in front of the writes of the cell loop
MayCommit(r) == r = 0

\* Where a rank goes on when its collective call returns.
PairDone(r) == pc[r] = "reduce" /\ phase[r] = 2
CellDone(r) == PairDone(r) /\ kidx[r] = NumPairs
PcAfterReduce(r) ==
    IF pc[r] = "sreduce" THEN (IF phase[r] = 2 THEN "straggle" ELSE "sreduce")
    ELSE IF ~PairDone(r) THEN "reduce"
    ELSE IF ~CellDone(r) THEN "eval"
    ELSE IF MayCommit(r) THEN "commit" ELSE "loop"

\* Every rank of the communicator is in the call: the call returns on all of
\* them, each assigning the result to the array it passed.
ReduceComplete ==
    /\ \A q \in Ranks : post[q] # NoPost
    /\ mem' = [q \in Ranks |-> [mem[q] EXCEPT ![post[q].name] = Reduced(q)]]
    /\ post' = [q \in Ranks |-> NoPost]
    /\ pc' = [q \in Ranks |-> PcAfterReduce(q)]
    /\ phase' = [q \in Ranks |-> IF phase[q] = 1 THEN 2 ELSE 1]
    /\ kidx' = [q \in Ranks |-> IF PairDone(q) /\ ~CellDone(q) THEN kidx[q] + 1 ELSE kidx[q]]
    /\ count' = [q \in Ranks |-> IF CellDone(q) /\ ~MayCommit(q) THEN count[q] + 1 ELSE count[q]]
    /\ extra' = [q \in Ranks |-> IF pc[q] = "sreduce" /\ phase[q] = 2 THEN extra[q] + 1 ELSE extra[q]]
    /\ UNCHANGED <<cfgvars, run, prev, unflushed, faults, f, f0, inds, coords, inds_nums, net,
                   evals, writes>>

\* ------------------------------------------------------------------ commit
\* The datasets an engine writes back: f[loss_key][:] = losses[loss_key] and
\* f[acc_key][:] = accuracies[acc_key] for every pair; f['max_eig'][:] and
\* f['min_eig'][:] in the Hessian engines.
CommitNames ==
    IF engine \in LossEngines
    THEN {LossKey(keys[i]) : i \in 1..Len(keys)} \cup {AccKey(keys[i]) : i \in 1..Len(keys)}
    ELSE {"max_eig", "min_eig"}

Committed(r) == [n \in DOMAIN f |-> IF n \in CommitNames THEN mem[r][n] ELSE f[n]]

\* f.flush() follows the writes in crunch; crunch_hessian_eigs has none
FlushAfterCommit == engine = "crunch"

\* the write at the end of one turn of the cell loop (synchronized engines)
Commit(r) ==
    /\ pc[r] = "commit"
    /\ f' = Committed(r)
    /\ writes' = writes \cup {r}
    /\ unflushed' = ~FlushAfterCommit
    /\ count' = [count EXCEPT ![r] = @ + 1]
    /\ pc' = [pc EXCEPT ![r] = "loop"]
    /\ UNCHANGED <<cfgvars, run, prev, faults, f0, mem, inds, coords, inds_nums,
                   kidx, phase, extra, net, post, evals>>

\* the write after the cell loop (crunch_2: f.flush(); crunch_hessian_eigs_2),
\* then f.close()
FinalCommit(r) ==
    /\ pc[r] = "final"
    /\ f' = Committed(r)
    /\ writes' = writes \cup {r}
    /\ unflushed' = FALSE
    /\ pc' = [pc EXCEPT ![r] = "done"]
    /\ UNCHANGED <<cfgvars, run, prev, faults, f0, mem, inds, coords, inds_nums,
                   count, kidx, phase, extra, net, post, evals>>

\* ------------------------------------------------------ the trailing loop
\* for i in range(max(inds_nums) - len(inds)): two reduce calls
\* (variant: one trailing round too few)
ExtraRoundsShort(r) == SetMax({inds_nums[r][q] : q \in DOMAIN inds_nums[r]}) - Len(inds[r]) - 1

MaxJobs(r) == SetMax({inds_nums[r][q] : q \in DOMAIN inds_nums[r]})
ExtraRounds(r) == MaxJobs(r) - Len(inds[r])

Straggle(r) ==
    /\ pc[r] = "straggle"
    /\ IF extra[r] < ExtraRounds(r)
       THEN /\ pc' = [pc EXCEPT ![r] = "sreduce"]
            /\ phase' = [phase EXCEPT ![r] = 1]
            /\ unflushed' = unflushed
       ELSE /\ pc' = [pc EXCEPT ![r] = "done"]
            /\ phase' = phase
            /\ unflushed' = (unflushed /\ ~CanWrite(r))
    /\ UNCHANGED <<cfgvars, run, prev, faults, f, f0, mem, inds, coords, inds_nums,
                   count, kidx, extra, net, post, evals, writes>>

\* ------------------------------------------------------------------- runs
Ended(r) == pc[r] \in {"done", "raised", "killed"}
\* blocked in a collective call that a rank that has ended will never enter
Stuck(r) == post[r] # NoPost /\ \E q \in Ranks : Ended(q)
RunOver == \A r \in Ranks : Ended(r) \/ Stuck(r)
Completed == \A r \in Ranks : pc[r] = "done"

\* The caller starts the same engine again, with the same configuration,
\* against the same surface file.
Rerun ==
    /\ RunOver
    /\ run < MaxRuns
    /\ run' = run + 1
    /\ prev' = IF Completed THEN "completed" ELSE "aborted"
    /\ f0' = f
    /\ pc' = Fresh(nproc, "open")
    /\ mem' = Fresh(nproc, <<>>)
    /\ inds' = Fresh(nproc, <<>>)
    /\ coords' = Fresh(nproc, <<>>)
    /\ inds_nums' = Fresh(nproc, <<>>)
    /\ count' = Fresh(nproc, 0)
    /\ kidx' = Fresh(nproc, 1)
    /\ phase' = Fresh(nproc, 1)
    /\ extra' = Fresh(nproc, 0)
    /\ net' = Fresh(nproc, <<>>)
    /\ post' = Fresh(nproc, NoPost)
    /\ evals' = Fresh(nproc, {})
    /\ writes' = {}
    /\ unflushed' = FALSE
    /\ UNCHANGED <<cfgvars, faults, f>>

Next ==
    \/ \E r \in Ranks : Open(r)
    \/ \E r \in Ranks : InitLossPair(r)
    \/ \E r \in Ranks : InitEigs(r)
    \/ \E r \in Ranks : KilledInCreate(r)
    \/ \E r \in Ranks : Partition(r)
    \/ \E r \in Ranks : Mesh(r)
    \/ \E r \in Ranks : BeginCell(r)
    \/ \E r \in Ranks : EndLoop(r)
    \/ \E r \in Ranks : EvaluateLoss(r)
    \/ \E r \in Ranks : EvaluateEigs(r)
    \/ \E r \in Ranks : EvaluatorRaises(r)
    \/ \E r \in Ranks : ReducePost(r)
    \/ \E r \in Ranks : Commit(r)
    \/ \E r \in Ranks : FinalCommit(r)
    \/ \E r \in Ranks : Straggle(r)
    \/ ReduceComplete
    \/ Rerun

Spec == Init /\ [][Next]_vars

\* ===================================================== the calls on their own
\* No engine runs: the variables of the run keep the values of one fixed,
\* unstarted configuration.
RunIdle ==
    /\ engine = "crunch"
    /\ nproc = 1
    /\ grid = <<1, 0>>
    /\ keys = <<"train">>
    /\ special = <<0 - 1, "plain">>
    /\ ndirs = 1
    /\ RunInit
runvars == <<engine, nproc, grid, keys, special, ndirs, run, prev, faults, f, f0, wvars,
             evals, writes, unflushed>>

\* ------------------------------------------------------- get_job_indices
MaxJobCells == 9
MaxWorkers == 3
\* the field handed to get_job_indices: each cell unfilled or holding a loss (7)
JobFields == UNION {[0..(n - 1) -> {Sentinel, 7}] : n \in 1..MaxJobCells}

JobInit ==
    /\ RunIdle
    /\ job \in {[vals |-> v, nproc |-> P, inds |-> Off] : v \in JobFields, P \in 1..MaxWorkers}
    /\ surf = Off /\ args = Off /\ ret = Off /\ entry = Off
    /\ DriversOff
    /\ LateOff

\* every rank of the communicator calls get_job_indices(vals, ..., comm)
GetJobIndices ==
    /\ job.inds = Off
    /\ job' = [job EXCEPT !.inds = [r \in 0..(job.nproc - 1) |-> JobIndices(job.vals, r, job.nproc)]]
    /\ UNCHANGED <<runvars, latevars, drivervars, surf, args, ret, entry>>

JobNext == GetJobIndices
JobSpec == JobInit /\ [][JobNext]_vars

\* ---------------------------------------------------- setup_surface_file
\* All calls below reach one file: args.surf_file names it (name_surface_file
\* returns it unchanged), whatever the resolution asked for.
MaxNum == 2
NoY == <<>>
\* a resolution <<min, max, num>> as init_plot_surface leaves it in args
Axes == {<<0 - 1, hi, n>> : hi \in {1, 2}, n \in 1..MaxNum}
Requests == [x : Axes, y : Axes \cup {NoY}, dir_file : {"dir.h5"}]

\* np.linspace(min, max, num=num): num values from min to max, each kept as
\* <<numerator, denominator>>
Linspace(a) == [i \in 1..a[3] |-> IF a[3] = 1 THEN <<a[1], 1>>
                                  ELSE <<a[1] * (a[3] - 1) + (i - 1) * (a[2] - a[1]), a[3] - 1>>]

NoFile == [exists |-> FALSE, data |-> <<>>]
File(d) == [exists |-> TRUE, data |-> d]

\* (args.y and 'ycoordinates' in f.keys()) or 'xcoordinates' in f.keys()
AlreadySetUp(a, d) ==
    (a.y # NoY /\ "ycoordinates" \in DOMAIN d) \/ "xcoordinates" \in DOMAIN d

\* f[name] = value on a file opened 'a': the name must be new
CanAssign(d, n) == n \notin DOMAIN d

\* f['dir_file'] = ...; f['xcoordinates'] = ...; if args.y: f['ycoordinates'] = ...
\* The first assignment to an existing name raises and ends the call, what
\* was assigned before stays.
SetupNames(a) == IF a.y = NoY THEN <<"dir_file", "xcoordinates">>
                 ELSE <<"dir_file", "xcoordinates", "ycoordinates">>
SetupValue(a, n) == IF n = "dir_file" THEN a.dir_file
                    ELSE IF n = "xcoordinates" THEN Linspace(a.x) ELSE Linspace(a.y)
RECURSIVE Assigned(_, _, _)
Assigned(d, a, i) ==
    IF i > Len(SetupNames(a)) THEN [data |-> d, ok |-> TRUE]
    ELSE IF ~CanAssign(d, SetupNames(a)[i]) THEN [data |-> d, ok |-> FALSE]
    ELSE Assigned(Put(d, SetupNames(a)[i], SetupValue(a, SetupNames(a)[i])), a, i + 1)

SetupInit ==
    /\ RunIdle
    /\ job = Off /\ entry = Off
    /\ DriversOff
    /\ LateOff
    /\ surf = NoFile
    /\ args \in Requests
    /\ ret = "none"

\* setup_surface_file(args, surf_file, dir_file). On the way that does not
\* return early the file opened 'r' is still open when it is opened 'a':
\* whether that second open succeeds is left to the library.
SetupSurfaceFile(a) ==
    /\ args' = a
    /\ IF surf.exists /\ AlreadySetUp(a, surf.data)
       THEN /\ surf' = surf
            /\ ret' = "already set up"
       ELSE \/ /\ surf.exists
               /\ surf' = surf
               /\ ret' = "raised"
            \/ LET w == Assigned(surf.data, a, 1)
               IN /\ surf' = File(w.data)
                  /\ ret' = IF w.ok THEN "written" ELSE "raised"
    /\ UNCHANGED <<runvars, latevars, drivervars, job, entry>>

\* The process is terminated inside setup_surface_file, after i of its
\* assignments.
SetupKilled(a, i) ==
    /\ ~(surf.exists /\ AlreadySetUp(a, surf.data))
    /\ surf.data = <<>>
    /\ args' = a
    /\ surf' = File([n \in {SetupNames(a)[k] : k \in 1..i} |-> SetupValue(a, n)])
    /\ ret' = "killed"
    /\ UNCHANGED <<runvars, latevars, drivervars, job, entry>>

\* The shape an engine reads from the file, and the datasets an engine run
\* leaves in it: created with the sentinel when absent (crunch lines 94-98),
\* overwritten in place with its arrays otherwise (lines 149-150). The engine
\* needs f['xcoordinates'].
SurfGrid(d) == <<Len(d["xcoordinates"]),
                 IF "ycoordinates" \in DOMAIN d THEN Len(d["ycoordinates"]) ELSE 0>>
\* (variant: a key that is the name of an axis)
EngineNamesAxis(e) == IF e = "loss" THEN {"xcoordinates", "train_acc"} ELSE {"max_eig", "min_eig"}

EngineNames(e) == IF e = "loss" THEN {LossKey("train"), AccKey("train")} ELSE {"max_eig", "min_eig"}
RECURSIVE Written(_, _)
Written(d, N) ==
    IF N = {} THEN d
    ELSE LET n == CHOOSE m \in N : TRUE
         IN Written(IF n \in DOMAIN d THEN [d EXCEPT ![n] = Filled(SurfGrid(d), 7)]
                    ELSE Put(d, n, Filled(SurfGrid(d), LossInit)),
                    N \ {n})
EngineRun(e) ==
    /\ surf.exists
    /\ "xcoordinates" \in DOMAIN surf.data
    /\ surf' = File(Written(surf.data, EngineNames(e)))
    /\ UNCHANGED <<runvars, latevars, drivervars, job, entry, args, ret>>

SetupNext ==
    \/ \E a \in Requests : SetupSurfaceFile(a)
    \/ \E a \in Requests : \E i \in 0..2 : SetupKilled(a, i)
    \/ \E e \in {"loss", "eigs"} : EngineRun(e)
SetupSpec == SetupInit /\ [][SetupNext]_vars

\* ------------------------------------------------------- the entry points
\* A resolution string is kept as the sequence of its parts between ':';
\* a part is the text of a number ("0" or "1" here) or text that float()
\* rejects ("a").
\* The empty string is the empty sequence.
MaxParts == 3
Parts == {"0", "1", "a"}
Strings == UNION {[1..n -> Parts] : n \in 0..MaxParts}
EntryPoints == {"plot_surface", "plot_surface_list", "plot_hessian_eigen"}

\* s.split(':'): the empty string gives one empty part
Split(s) == IF s = <<>> THEN <<"">> ELSE s
\* float(a) succeeds, and its value
IsFloat(a) == a \in {"0", "1"}
Float(a) == IF a = "0" THEN 0 ELSE 1
\* min, max, num = [float(a) for a in s.split(':')] succeeds
Unpacks(s) == Len(Split(s)) = 3 /\ \A i \in 1..Len(Split(s)) : IsFloat(Split(s)[i])
\* assert args.ymin and args.ymax and args.ynum
AllTruthy(s) == \A i \in 1..Len(s) : Float(s[i]) # 0
\* the try block of "Check plotting resolution" runs through
ResolutionAccepted(x, y) ==
    /\ Unpacks(x)
    /\ y # <<>> => (Unpacks(y) /\ AllTruthy(y))

\* if save_to : os.makedirs(save_to, exist_ok=True); plot_hessian_eigen has
\* no save_to
MakesDir(e) == e.fn \in {"plot_surface", "plot_surface_list"} /\ e.save_to

EntryInit ==
    /\ RunIdle
    /\ job = Off
    /\ surf = Off /\ args = Off /\ ret = Off
    /\ DriversOff
    /\ LateOff
    /\ entry \in [fn : EntryPoints, x : Strings, y : Strings, save_to : BOOLEAN,
                   cuda : {"off", "unavailable"}, pc : {"start"}, io : {{}}, error : {"none"}]

\* pl.seed_everything(42) and, in plot_surface / plot_surface_list, the
\* directory for the figures
Start ==
    /\ entry.pc = "start"
    /\ entry' = [entry EXCEPT !.pc = "environment",
                               !.io = IF MakesDir(entry) THEN @ \cup {"directory"} ELSE @]
    /\ UNCHANGED <<runvars, latevars, drivervars, job, surf, args, ret>>

\* "Environment setup": MPI, then the cuda check
Environment ==
    /\ entry.pc = "environment"
    /\ entry' = IF entry.cuda = "unavailable"
                THEN [entry EXCEPT !.pc = "failed", !.error = "cuda is not available"]
                ELSE [entry EXCEPT !.pc = "resolution"]
    /\ UNCHANGED <<runvars, latevars, drivervars, job, surf, args, ret>>

\* "Check plotting resolution"
CheckResolution ==
    /\ entry.pc = "resolution"
    /\ entry' = IF ResolutionAccepted(entry.x, entry.y)
                THEN [entry EXCEPT !.pc = "load"]
                ELSE [entry EXCEPT !.pc = "failed", !.error = "Improper format"]
    /\ UNCHANGED <<runvars, latevars, drivervars, job, surf, args, ret>>

\* "Load models and extract parameters"
LoadModel ==
    /\ entry.pc = "load"
    /\ entry' = [entry EXCEPT !.pc = "files", !.io = @ \cup {"model"}]
    /\ UNCHANGED <<runvars, latevars, drivervars, job, surf, args, ret>>

\* "Setup the direction file and the surface file"
SetupFiles ==
    /\ entry.pc = "files"
    /\ entry' = [entry EXCEPT !.pc = "compute", !.io = @ \cup {"direction file", "surface file"}]
    /\ UNCHANGED <<runvars, latevars, drivervars, job, surf, args, ret>>

EntryNext == Start \/ Environment \/ CheckResolution \/ LoadModel \/ SetupFiles
EntrySpec == EntryInit /\ [][EntryNext]_vars

\* ------------------------------------- crunch called with one more pair
\* The surface file was left by crunch called with the train dataloader only
\* (plot_surface, lines 355-363, without test_dataloader): the first m cells
\* of train_loss and train_acc hold their results. crunch is now called with
\* the train and the test dataloader against this file.
TrainOnly(g, m) ==
    [n \in {"train_loss", "train_acc"} |->
        [c \in Cells(g) |->
            IF c >= m THEN LossInit
            ELSE IF n = "train_loss" THEN LossAt(CoordOfCell(g, c), "train")
                 ELSE AccAt(CoordOfCell(g, c), "train")]]

PairsInit ==
    /\ engine = "crunch"
    /\ nproc \in 1..MaxProc
    /\ grid \in Grids
    /\ keys = <<"train", "test">>
    /\ special \in Evaluators(grid)
    /\ ndirs \in {1, 2}
    /\ CallsOff
    /\ DriversOff
    /\ LateOff
    /\ run = 1
    /\ prev = "none"
    /\ faults = 0
    /\ f \in {TrainOnly(grid, m) : m \in 0..NumCells(grid)}
    /\ f0 = f
    /\ pc = Fresh(nproc, "open")
    /\ mem = Fresh(nproc, <<>>)
    /\ inds = Fresh(nproc, <<>>)
    /\ coords = Fresh(nproc, <<>>)
    /\ inds_nums = Fresh(nproc, <<>>)
    /\ count = Fresh(nproc, 0)
    /\ kidx = Fresh(nproc, 1)
    /\ phase = Fresh(nproc, 1)
    /\ extra = Fresh(nproc, 0)
    /\ net = Fresh(nproc, <<>>)
    /\ post = Fresh(nproc, NoPost)
    /\ evals = Fresh(nproc, {})
    /\ writes = {}
    /\ unflushed = FALSE

\* the steps of crunch
PairsNext ==
    \/ \E r \in Ranks : Open(r)
    \/ \E r \in Ranks : InitLossPair(r)
    \/ \E r \in Ranks : KilledInCreate(r)
    \/ \E r \in Ranks : Partition(r)
    \/ \E r \in Ranks : BeginCell(r)
    \/ \E r \in Ranks : EndLoop(r)
    \/ \E r \in Ranks : EvaluateLoss(r)
    \/ \E r \in Ranks : EvaluatorRaises(r)
    \/ \E r \in Ranks : ReducePost(r)
    \/ \E r \in Ranks : Commit(r)
    \/ \E r \in Ranks : Straggle(r)
    \/ ReduceComplete
    \/ Rerun
PairsSpec == PairsInit /\ [][PairsNext]_vars

\* ---------------------------------------------- plot_hessian_eigen_models
\* The loop over model_files: the for statement ("next"), the load of the
\* model ("load") and min_max_hessian_eigs ("eval"), the latter two inside the
\* inner try, the for statement inside the outer try only.
MaxModels == 4
MaxInterrupts == 2
\* the largest eigenvalue min_max_hessian_eigs gives for model i
ModelMaxEig(i) == 10 + i

BatchInit ==
    /\ RunIdle
    /\ CallsOff
    /\ LateOff
    /\ mesh = Off /\ boot = Off
    /\ batch \in [L : 1..MaxModels, count : {1}, pc : {"next"}, max_eig : {<<>>},
                   loaded : {{}}, interrupted : {{}}]

\* for count, f in enumerate(model_files): the next file, or the end
NextModel ==
    /\ batch.pc = "next"
    /\ batch' = [batch EXCEPT !.pc = IF batch.count <= batch.L THEN "load" ELSE "returned"]
    /\ UNCHANGED <<runvars, latevars, callvars, mesh, boot>>

\* net = load(lightning_module_class, model_file = f)
LoadBatchModel ==
    /\ batch.pc = "load"
    /\ batch' = [batch EXCEPT !.pc = "eval", !.loaded = @ \cup {batch.count}]
    /\ UNCHANGED <<runvars, latevars, callvars, mesh, boot>>

\* maxeig, mineig, iter_count = min_max_hessian_eigs(...); max_eig.append(maxeig)
EvaluateBatchModel ==
    /\ batch.pc = "eval"
    /\ batch' = [batch EXCEPT !.pc = "next", !.count = @ + 1,
                               !.max_eig = Append(@, ModelMaxEig(batch.count))]
    /\ UNCHANGED <<runvars, latevars, callvars, mesh, boot>>

\* KeyboardInterrupt while the model is loaded or evaluated: the inner
\* "except KeyboardInterrupt: pass" ends this turn of the loop
InterruptInModel ==
    /\ batch.pc \in {"load", "eval"}
    /\ Cardinality(batch.interrupted) < MaxInterrupts
    /\ batch' = [batch EXCEPT !.pc = "next", !.count = @ + 1,
                               !.interrupted = @ \cup {batch.count}]
    /\ UNCHANGED <<runvars, latevars, callvars, mesh, boot>>

\* KeyboardInterrupt in the for statement itself: the outer except ends the loop
InterruptBetweenModels ==
    /\ batch.pc = "next"
    /\ batch.count <= batch.L
    /\ Cardinality(batch.interrupted) < MaxInterrupts
    /\ batch' = [batch EXCEPT !.pc = "returned", !.interrupted = @ \cup {0}]
    /\ UNCHANGED <<runvars, latevars, callvars, mesh, boot>>

BatchNext ==
    \/ NextModel
    \/ LoadBatchModel
    \/ EvaluateBatchModel
    \/ InterruptInModel
    \/ InterruptBetweenModels
BatchSpec == BatchInit /\ [][BatchNext]_vars

\* ------------------------------------------- the coordinates of crunch_2
\* coords = np.array(np.meshgrid(xcoordinates, ycoordinates)).T.reshape(-1,2)
\* and the loop "for count, ind in enumerate(inds)" over inds = range(size),
\* on arrays with their shape. A 3-D array is [shape, at], at being a
\* function of the index triples; the i-th x coordinate is <<"x", i>>.
MaxMeshNum == 4
XAxis(g) == [i \in 0..(g[1] - 1) |-> <<"x", i>>]
YAxis(g) == [j \in 0..(g[2] - 1) |-> <<"y", j>>]
Indices3(s) == (0..(s[1] - 1)) \X (0..(s[2] - 1)) \X (0..(s[3] - 1))

\* np.array(np.meshgrid(x, y)): indexing 'xy', two arrays of shape
\* (len(y), len(x)) with X[j, i] = x[i] and Y[j, i] = y[j], stacked
Meshgrid(x, y) ==
    LET s == <<2, Cardinality(DOMAIN y), Cardinality(DOMAIN x)>>
    IN [shape |-> s,
        at |-> [ix \in Indices3(s) |-> IF ix[1] = 0 THEN x[ix[3]] ELSE y[ix[2]]]]

\* (variant: the stacked arrays reshaped as they are)
TransposeNone(A) == A

\* A.T: the axes reversed
Transpose(A) ==
    LET s == <<A.shape[3], A.shape[2], A.shape[1]>>
    IN [shape |-> s, at |-> [ix \in Indices3(s) |-> A.at[<<ix[3], ix[2], ix[1]>>]]]

\* the element at position m of A in row-major (C) order
Unravel3(s, m) == <<m \div (s[2] * s[3]), (m \div s[3]) % s[2], m % s[3]>>
FlatAt(A, m) == A.at[Unravel3(A.shape, m)]
\* A.reshape(-1, 2): row k holds the elements 2k and 2k + 1
Reshape2(A) ==
    [k \in 0..((A.shape[1] * A.shape[2] * A.shape[3]) \div 2 - 1) |->
        <<FlatAt(A, 2 * k), FlatAt(A, 2 * k + 1)>>]

\* coords of crunch_2 / crunch_hessian_eigs_2
MeshCoords(g) ==
    IF g[2] = 0 THEN [k \in 0..(g[1] - 1) |-> <<XAxis(g)[k]>>]
    ELSE Reshape2(Transpose(Meshgrid(XAxis(g), YAxis(g))))

\* the cell of an array of the grid's shape that array.ravel()[ind] is
RavelCell(g, ind) == IF g[2] = 0 THEN <<ind>> ELSE <<ind \div g[2], ind % g[2]>>

MeshInit ==
    /\ RunIdle
    /\ CallsOff
    /\ LateOff
    /\ batch = Off /\ boot = Off
    /\ mesh \in [grid : (1..MaxMeshNum) \X (0..MaxMeshNum), count : {0},
                  coord : {<<>>}, cell : {<<>>}]

\* one turn of the loop: coord = coords[count]; set_weights(net, w, d, coord);
\* the result goes to losses[loss_key].ravel()[ind]
MeshTurn ==
    /\ mesh.count < NumCells(mesh.grid)
    /\ mesh' = [mesh EXCEPT !.count = @ + 1,
                            !.coord = MeshCoords(mesh.grid)[mesh.count],
                            !.cell = RavelCell(mesh.grid, mesh.count)]
    /\ UNCHANGED <<runvars, latevars, callvars, batch, boot>>

MeshNext == MeshTurn
MeshSpec == MeshInit /\ [][MeshNext]_vars

\* ------------------------------------------------------- setup_dir_file
\* Every rank runs setup_dir_file (plot_hessian_eigen: the same lines inline)
\* and then the crunch function. boot.pc[r] is where rank r is:
\*   "dir"      before "if rank == 0: setup_direction(...)"
\*   "surf"     before "if rank == 0: setup_surface_file(...)"
\*   "barrier1" before the first barrier(comm), "wait1" inside it
\*   "load"     before d = load_directions(dir_file)
\*   "barrier2" before the second barrier(comm), "wait2" inside it
\*   "crunch"   before f = h5py.File(surf_file, ...) of the crunch function
\*   "opened"   the surface file is open
MaxBootProc == 3
BootStages == <<"dir", "surf", "barrier1", "wait1", "load", "barrier2", "wait2",
                "crunch", "opened">>
StageNo(s) == CHOOSE i \in DOMAIN BootStages : BootStages[i] = s
BootRanks == DOMAIN boot.pc

BootInit ==
    /\ RunIdle
    /\ CallsOff
    /\ LateOff
    /\ batch = Off /\ mesh = Off
    /\ \E P \in 1..MaxBootProc :
          boot \in [pc : {[r \in 0..(P - 1) |-> "dir"]},
                    dir_file : {"absent", "ready"},
                    surf_file : {"absent", "ready"},
                    ran : {{}},
                    read : {{}}]

\* if rank == 0: setup_direction(args, dir_file, net)
BootSetupDirection(r) ==
    /\ boot.pc[r] = "dir"
    /\ boot' = IF r = 0
               THEN [boot EXCEPT !.pc[r] = "surf", !.dir_file = "ready",
                                 !.ran = @ \cup {<<r, "setup_direction">>}]
               ELSE [boot EXCEPT !.pc[r] = "surf"]
    /\ UNCHANGED <<runvars, latevars, callvars, batch, mesh>>

\* if rank == 0: setup_surface_file(args, surf_file, dir_file)
BootSetupSurface(r) ==
    /\ boot.pc[r] = "surf"
    /\ boot' = IF r = 0
               THEN [boot EXCEPT !.pc[r] = "barrier1", !.surf_file = "ready",
                                 !.ran = @ \cup {<<r, "setup_surface_file">>}]
               ELSE [boot EXCEPT !.pc[r] = "barrier1"]
    /\ UNCHANGED <<runvars, latevars, callvars, batch, mesh>>

\* barrier(comm): the rank enters the collective call
EnterBarrier(r) ==
    /\ boot.pc[r] \in {"barrier1", "barrier2"}
    /\ boot' = [boot EXCEPT !.pc[r] = IF @ = "barrier1" THEN "wait1" ELSE "wait2"]
    /\ UNCHANGED <<runvars, latevars, callvars, batch, mesh>>

\* (variant: the call returns at once)
ArrivedAlone(w) == TRUE

\* every rank of the communicator has entered the barrier a rank waits in
Arrived(w) == \A q \in BootRanks : StageNo(boot.pc[q]) >= StageNo(w)

\* barrier(comm) returns
LeaveBarrier(r) ==
    /\ boot.pc[r] \in {"wait1", "wait2"}
    /\ Arrived(boot.pc[r])
    /\ boot' = [boot EXCEPT !.pc[r] = IF @ = "wait1" THEN "load" ELSE "crunch"]
    /\ UNCHANGED <<runvars, latevars, callvars, batch, mesh>>

\* d = load_directions(dir_file); boot.read keeps what the rank found
LoadDirections(r) ==
    /\ boot.pc[r] = "load"
    /\ boot' = [boot EXCEPT !.pc[r] = "barrier2",
                            !.read = @ \cup {<<r, "dir_file", boot.dir_file>>}]
    /\ UNCHANGED <<runvars, latevars, callvars, batch, mesh>>

\* crunch_function(...): f = h5py.File(surf_file, 'r+' if rank == 0 else 'r')
OpenStore(r) ==
    /\ boot.pc[r] = "crunch"
    /\ boot' = [boot EXCEPT !.pc[r] = "opened",
                            !.read = @ \cup {<<r, "surf_file", boot.surf_file>>}]
    /\ UNCHANGED <<runvars, latevars, callvars, batch, mesh>>

BootNext ==
    \/ \E r \in BootRanks : BootSetupDirection(r)
    \/ \E r \in BootRanks : BootSetupSurface(r)
    \/ \E r \in BootRanks : EnterBarrier(r)
    \/ \E r \in BootRanks : LeaveBarrier(r)
    \/ \E r \in BootRanks : LoadDirections(r)
    \/ \E r \in BootRanks : OpenStore(r)
BootSpec == BootInit /\ [][BootNext]_vars

\* --------------------------------------------- the cell loop and dir_type
\* The loop "for count, ind in enumerate(inds)" of an engine, on a 1-D grid of
\* unfilled cells, with args.dir_type as the caller gave it. loop.net is what
\* the net holds: <<>>, the parameters get_net loaded, or a coordinate.
MaxLoopCells == 4
DirTypes == {"weights", "states", "other"}
BaseNet == <<>>

LoopInit ==
    /\ RunIdle
    /\ CallsOff
    /\ DriversOff
    /\ plist = Off /\ fit = Off /\ stopper = Off
    /\ loop \in [engine : Engines, dir_type : DirTypes, num : 1..MaxLoopCells,
                  count : {0}, pc : {"set"}, net : {BaseNet}, evals : {{}}]

\* coord = coords[count];
\* if args.dir_type == 'weights': set_weights(net, w, d, coord)
\* elif args.dir_type == 'states': set_states(net, s, d, coord)
LoadCell ==
    /\ loop.pc = "set"
    /\ loop.count < loop.num
    /\ loop' = [loop EXCEPT !.pc = "eval",
                            !.net = IF loop.dir_type \in {"weights", "states"}
                                    THEN SetWeights(@, <<loop.count>>)
                                    ELSE @]
    /\ UNCHANGED <<runvars, callvars, drivervars, plist, fit, stopper>>

\* loss, acc = evaluator(net, dataloader) (min_max_hessian_eigs(net, ...)) and
\* the result recorded at ravel()[ind]; loop.evals keeps <<ind, what the net held>>
EvaluateCell ==
    /\ loop.pc = "eval"
    /\ loop' = [loop EXCEPT !.pc = "set", !.count = @ + 1,
                            !.evals = @ \cup {<<loop.count, loop.net>>}]
    /\ UNCHANGED <<runvars, callvars, drivervars, plist, fit, stopper>>

\* the loop is exhausted
LoopEnd ==
    /\ loop.pc = "set"
    /\ loop.count = loop.num
    /\ loop' = [loop EXCEPT !.pc = "done"]
    /\ UNCHANGED <<runvars, callvars, drivervars, plist, fit, stopper>>

LoopNext ==
    \/ LoadCell
    \/ EvaluateCell
    \/ LoopEnd
LoopSpec == LoopInit /\ [][LoopNext]_vars

\* ------------------------------------------------------ plot_surface_list
\* model_files is a list of num checkpoints, named by their position 0..num-1;
\* epochs is a list of positions in it. plist.pc is where the call is:
\*   "select"  at the head of the loop body, before the if / elif chain
\*   "load"    before get_net, "crunch" before setup_dir_file and the engine
\*   "data"    before get_data_from_file and the plot of the epoch
\*   "dump"    after the loop, "returned", "failed" (plist.error raised)
MaxFiles == 3
MaxEpochs == 2
Directions == {"random", "from_init", "i-1", "i+1", "until_end", "other"}
NoModel == 0 - 1

\* model_files[k]: a position from the end when k is negative, IndexError
\* outside -num .. num-1
InList(num, k) == (0 - num) <= k /\ k < num
Item(num, k) == IF k < 0 THEN num + k ELSE k

\* the right-hand side of args.model_file2 = ...
SecondIndex(direction, epoch) ==
    CASE direction = "from_init" -> 0
      [] direction = "i-1" -> epoch - 1
      [] direction = "i+1" -> epoch + 1
      [] direction = "until_end" -> 0 - 1

\* the datasets the engine leaves in the surface file of the epoch
SurfaceFields(e) ==
    {"xcoordinates"} \cup (IF e.y THEN {"ycoordinates"} ELSE {})
        \cup (IF e.train THEN {"train_loss", "train_acc"} ELSE {})
        \cup (IF e.test THEN {"test_loss", "test_acc"} ELSE {})

\* the plot_type plot_surface_list asks for
PlotType(e) == IF e.y /\ e.proj THEN "traj" ELSE IF e.y THEN "2d" ELSE "1d"

\* get_data_from_file(surf_file, plot_type): data is assigned under
\* plot_type == "1d" only; "return data" with data unassigned raises
GetDataFromFile(fields, plot_type) ==
    IF plot_type = "1d"
    THEN IF "train_loss" \notin fields THEN [error |-> "AssertionError", data |-> {}]
         ELSE [error |-> "none",
               data |-> {"xcoordinates", "train_loss", "train_acc"}
                          \cup (IF "test_loss" \in fields THEN {"test_loss", "test_acc"} ELSE {})]
    ELSE [error |-> "UnboundLocalError", data |-> {}]

Epoch(e) == e.epochs[e.i]

ListInit ==
    /\ RunIdle
    /\ CallsOff
    /\ DriversOff
    /\ loop = Off /\ fit = Off /\ stopper = Off
    /\ \E num \in 1..MaxFiles :
          plist \in {e \in [num : {num},
                            epochs : UNION {[1..n -> 0..(num - 1)] : n \in 1..MaxEpochs},
                            direction : Directions,
                            y : BOOLEAN, proj : BOOLEAN,
                            train : BOOLEAN, test : BOOLEAN,
                            i : {1}, pc : {"select"},
                            model_file : {NoModel}, model_file2 : {NoModel},
                            loaded : {{}}, all_data : {{}}, error : {"none"}] :
                        e.train \/ e.test}

\* args.model_file = model_files[epoch] and the if / elif chain on direction
SelectModels ==
    /\ plist.pc = "select"
    /\ LET e == plist
           ep == Epoch(e)
       IN plist' =
            IF e.direction = "other"
            THEN [e EXCEPT !.pc = "failed", !.error = "RuntimeError", !.model_file = ep]
            ELSE IF e.direction = "random"
            THEN [e EXCEPT !.pc = "load", !.model_file = ep, !.model_file2 = NoModel]
            ELSE IF InList(e.num, SecondIndex(e.direction, ep))
            THEN [e EXCEPT !.pc = "load", !.model_file = ep,
                           !.model_file2 = Item(e.num, SecondIndex(e.direction, ep))]
            ELSE [e EXCEPT !.pc = "failed", !.error = "IndexError", !.model_file = ep]
    /\ UNCHANGED <<runvars, callvars, drivervars, loop, fit, stopper>>

\* net, w, s = get_net(lightning_module_class, args.model_file, args.ngpu)
LoadNet ==
    /\ plist.pc = "load"
    /\ plist' = [plist EXCEPT !.pc = "crunch", !.loaded = @ \cup {plist.i}]
    /\ UNCHANGED <<runvars, callvars, drivervars, loop, fit, stopper>>

\* setup_dir_file, then crunch_function(...) with the dataloaders given
CrunchEpoch ==
    /\ plist.pc = "crunch"
    /\ plist' = [plist EXCEPT !.pc = "data"]
    /\ UNCHANGED <<runvars, callvars, drivervars, loop, fit, stopper>>

\* all_data[epoch] = get_data_from_file(surf_file, plot_type = ...), the plot,
\* and the next turn of the loop
CollectData ==
    /\ plist.pc = "data"
    /\ LET got == GetDataFromFile(SurfaceFields(plist), PlotType(plist))
       IN plist' =
            IF got.error # "none"
            THEN [plist EXCEPT !.pc = "failed", !.error = got.error]
            ELSE [plist EXCEPT !.all_data = @ \cup {Epoch(plist)},
                               !.i = @ + 1,
                               !.pc = IF plist.i < Len(plist.epochs) THEN "select" ELSE "dump"]
    /\ UNCHANGED <<runvars, callvars, drivervars, loop, fit, stopper>>

\* pickle.dump(...); return all_data, dir_files, surf_files
DumpData ==
    /\ plist.pc = "dump"
    /\ plist' = [plist EXCEPT !.pc = "returned"]
    /\ UNCHANGED <<runvars, callvars, drivervars, loop, fit, stopper>>

ListNext ==
    \/ SelectModels
    \/ LoadNet
    \/ CrunchEpoch
    \/ CollectData
    \/ DumpData
ListSpec == ListInit /\ [][ListNext]_vars

\* ------------------------------------------------------------------ train
\* One call train(hparams, data_module). fit.h are the hyperparameters that
\* the part of train up to Trainer(**trainer_args) reads; fit.locals are the
\* local names of train that are bound. fit.pc is where the call is:
\*   "seed", "data" (if data_module is None), "args" (logdir, the assert, the
\*   checkpoint directory), "model", "callbacks", "trainer", "constructed",
\*   "failed" (fit.error raised)
Metrics == {"val_loss", "val_accuracy"}
Hparams ==
    [seeded : BOOLEAN,                  \* random_seed != -1
     logdir : BOOLEAN,                  \* logdir is not None
     divides : BOOLEAN,                 \* d_model % n_heads == 0
     external_call : BOOLEAN,
     save_weights_only : {"absent", "true", "false"},
     patience_metric : Metrics,         \* early_stopping_grokking.metric
     validation_metric : Metrics]

\* (lambda s : "min" if 'loss' in s else 'max')
Mode(metric) == IF metric = "val_loss" THEN "min" ELSE "max"
\* getattr(hparams, "save_weights_only", True)
SaveWeightsOnly(h) == IF h.save_weights_only = "absent" THEN "true" ELSE h.save_weights_only

\* callbacks as built by lines 359-393, data_flag being bound to flag
Callbacks(h, flag) ==
    (IF flag THEN <<>>
     ELSE << <<"EarlyStopping", h.patience_metric, Mode(h.patience_metric)>>,
             <<"ModelCheckpoint", h.validation_metric, Mode(h.validation_metric),
               SaveWeightsOnly(h)>> >>)
    \o << <<"LearningRateMonitor">>, <<"StopTrainingCallback">> >>

FitInit ==
    /\ RunIdle
    /\ CallsOff
    /\ DriversOff
    /\ loop = Off /\ plist = Off /\ stopper = Off
    /\ fit \in [h : Hparams, supplied : BOOLEAN, pc : {"seed"}, locals : {{}},
                 data_flag : {FALSE}, callbacks : {<<>>}, error : {"none"}]

\* pl.seed_everything(...) if asked for; init_wandb(hparams)
SeedAndWandb ==
    /\ fit.pc = "seed"
    /\ fit' = [fit EXCEPT !.pc = "data"]
    /\ UNCHANGED <<runvars, callvars, drivervars, loop, plist, stopper>>

\* if data_module is None : data_module, data_flag = create_data_module(hparams)
\* (create_data_module returns data_flag = False)
DataModuleOrNot ==
    /\ fit.pc = "data"
    /\ fit' = IF fit.supplied
              THEN [fit EXCEPT !.pc = "args"]
              ELSE [fit EXCEPT !.pc = "args", !.locals = @ \cup {"data_flag"},
                               !.data_flag = FALSE]
    /\ UNCHANGED <<runvars, callvars, drivervars, loop, plist, stopper>>

\* logdir, the assert on d_model and n_heads, the checkpoint directory
ProcessArgs ==
    /\ fit.pc = "args"
    /\ fit' = IF fit.h.divides
              THEN [fit EXCEPT !.pc = "model"]
              ELSE [fit EXCEPT !.pc = "failed", !.error = "AssertionError"]
    /\ UNCHANGED <<runvars, callvars, drivervars, loop, plist, stopper>>

\* model = TrainableTransformer(hparams).float(); trainer_args, the loggers
CreateModel ==
    /\ fit.pc = "model"
    /\ fit' = [fit EXCEPT !.pc = "callbacks"]
    /\ UNCHANGED <<runvars, callvars, drivervars, loop, plist, stopper>>

\* callbacks = []; "if not data_flag : ..."; callbacks += [...]: reading a
\* local name that was never bound raises UnboundLocalError
SetupCallbacks ==
    /\ fit.pc = "callbacks"
    /\ fit' = IF "data_flag" \in fit.locals
              THEN [fit EXCEPT !.pc = "trainer",
                               !.callbacks = Callbacks(fit.h, fit.data_flag)]
              ELSE [fit EXCEPT !.pc = "failed", !.error = "UnboundLocalError"]
    /\ UNCHANGED <<runvars, callvars, drivervars, loop, plist, stopper>>

\* trainer = Trainer(**trainer_args)
ConstructTrainer ==
    /\ fit.pc = "trainer"
    /\ fit' = [fit EXCEPT !.pc = "constructed"]
    /\ UNCHANGED <<runvars, callvars, drivervars, loop, plist, stopper>>

FitNext ==
    \/ SeedAndWandb
    \/ DataModuleOrNot
    \/ ProcessArgs
    \/ CreateModel
    \/ SetupCallbacks
    \/ ConstructTrainer
FitSpec == FitInit /\ [][FitNext]_vars

\* --------------------------------------------------- StopTrainingCallback
\* The validation epochs of one fit. pl_module.es_step is kept by the module
\* (not by the callback): before each validation epoch end it may hold any
\* value. stopper.pc: "validate" (an epoch is running), "callback" (the
\* trainer calls on_validation_epoch_end), "interrupted" (KeyboardInterrupt
\* left the callback), "finished" (max_epochs reached).
\* stopper.calls keeps, for every call of the callback, <<epoch, es_step when
\* called, es_step when it ended, whether it raised>>.
MaxPatience == 3
MaxEsStep == 4
MaxValEpochs == 3

StopInit ==
    /\ RunIdle
    /\ CallsOff
    /\ DriversOff
    /\ loop = Off /\ plist = Off /\ fit = Off
    /\ stopper \in [patience : 0..MaxPatience, es_step : {0}, epoch : {0},
                     pc : {"validate"}, calls : {{}}]

\* a validation epoch of the module ends: es_step is what the module made it
ValidationEpoch ==
    /\ stopper.pc = "validate"
    /\ stopper.epoch < MaxValEpochs
    /\ \E s \in 0..MaxEsStep :
          stopper' = [stopper EXCEPT !.pc = "callback", !.epoch = @ + 1, !.es_step = s]
    /\ UNCHANGED <<runvars, callvars, drivervars, loop, plist, fit>>

\* (variant: the counter has to pass the patience)
StopConditionStrict(es_step, patience) == es_step > patience

\* if pl_module.es_step >= early_stopping_patience :
StopCondition(es_step, patience) == es_step >= patience

\* StopTrainingCallback.on_validation_epoch_end(trainer, pl_module)
OnValidationEpochEnd ==
    /\ stopper.pc = "callback"
    /\ LET raises == StopCondition(stopper.es_step, stopper.patience)
       IN stopper' = [stopper EXCEPT
                         !.pc = IF raises THEN "interrupted" ELSE "validate",
                         !.calls = @ \cup {<<stopper.epoch, stopper.es_step,
                                             stopper.es_step, raises>>}]
    /\ UNCHANGED <<runvars, callvars, drivervars, loop, plist, fit>>

\* max_epochs validation epochs are over
FitEnds ==
    /\ stopper.pc = "validate"
    /\ stopper.epoch = MaxValEpochs
    /\ stopper' = [stopper EXCEPT !.pc = "finished"]
    /\ UNCHANGED <<runvars, callvars, drivervars, loop, plist, fit>>

StopNext ==
    \/ ValidationEpoch
    \/ OnValidationEpochEnd
    \/ FitEnds
StopSpec == StopInit /\ [][StopNext]_vars

\* =================================================================== claims
Range(s) == {s[i] : i \in DOMAIN s}
NoRepeats(s) == \A i, j \in DOMAIN s : i # j => s[i] # s[j]
EvaluatedCells(r) == {e[1] : e \in evals[r]}
\* the cells that were unfilled when the current run started
Unfilled0 == IF JobField \in DOMAIN f0 THEN UnfilledSet(f0[JobField]) ELSE Cells(grid)
Partitioned(r) == inds_nums[r] # <<>>

\* C1: in a run of a synchronized engine the index lists of the ranks are
\* pairwise disjoint and together are exactly the cells unfilled at the start
\* of the run; a cell is evaluated by at most one rank, only if it was
\* unfilled, and in a completed run every unfilled cell has been evaluated.
C1_PartitionExact ==
    engine \in SyncEngines =>
        LET unfilled == Unfilled0
        IN /\ \A r \in Ranks : Partitioned(r) =>
                 /\ NoRepeats(inds[r])
                 /\ Range(inds[r]) \subseteq unfilled
                 /\ \A q \in Ranks \ {r} : Partitioned(q) => Range(inds[r]) \cap Range(inds[q]) = {}
           /\ (\A r \in Ranks : Partitioned(r)) =>
                 UNION {Range(inds[r]) : r \in Ranks} = unfilled
           /\ \A r \in Ranks :
                 /\ EvaluatedCells(r) \subseteq unfilled
                 /\ \A q \in Ranks \ {r} : EvaluatedCells(r) \cap EvaluatedCells(q) = {}
           /\ Completed => UNION {EvaluatedCells(r) : r \in Ranks} = unfilled

\* a completed two-rank run over a partly filled store in which both ranks
\* evaluated cells
C1_Witness ==
    /\ engine \in SyncEngines
    /\ nproc = 2
    /\ Completed
    /\ Unfilled0 # Cells(grid)
    /\ \A r \in Ranks : evals[r] # {}

\* a rank waits in a collective call although no process has failed: a rank
\* that returned from the engine will never enter the call
Deadlocked ==
    /\ \A r \in Ranks : pc[r] \notin {"raised", "killed"}
    /\ \E r \in Ranks : post[r] # NoPost
    /\ \E q \in Ranks : pc[q] = "done"

\* C2: a run of crunch in which no process fails never leaves a rank blocked
\* in a reduction, for one and for two dataloader/field pairs.
C2_NoDeadlock == engine = "crunch" => ~Deadlocked

\* the largest number of cells assigned to a rank
MostCells == SetMax({Len(inds[q]) : q \in Ranks})

\* C3: a rank of a synchronized engine that returns has gone through all its
\* own cells and then through exactly (most cells of any rank) - (its own
\* cells) trailing rounds, so its rounds add up to those of the busiest rank.
C3_ExtraRounds ==
    engine \in SyncEngines =>
        \A r \in Ranks : pc[r] = "done" =>
            /\ count[r] = Len(inds[r])
            /\ extra[r] = MostCells - Len(inds[r])
            /\ count[r] + extra[r] = MostCells

\* a completed run in which a rank with fewer cells went through a trailing round
C3_Witness ==
    /\ engine \in SyncEngines
    /\ Completed
    /\ \E r, q \in Ranks : Len(inds[r]) < Len(inds[q]) /\ extra[r] = 1 /\ extra[q] = 0

\* the element-wise maximum (minimum for min_eig) of all ranks' arrays of field n
Merge(n) ==
    [c \in Cells(grid) |->
        IF n = "min_eig" THEN SetMin({mem[p][n][c] : p \in Ranks})
        ELSE SetMax({mem[p][n][c] : p \in Ranks})]

\* C4: when a reduction call returns, for the field a rank passed to it every
\* rank holds the same array: the element-wise maximum (minimum for min_eig)
\* of what the ranks held for that field before the call.
C4_ReduceMergesField ==
    [][ ((\A q \in Ranks : post[q] # NoPost) /\ (\A q \in Ranks : post'[q] = NoPost)) =>
          \A r, q \in Ranks : mem'[q][post[r].name] = Merge(post[r].name) ]_vars

\* C5: in a run of a synchronized engine only rank 0 writes, or tries to
\* write, to the surface file, field initialisation included.
C5_OnlyLeaderWrites == engine \in SyncEngines => writes \subseteq {0}

\* the fields of the pair a rank evaluates in its current turn of the loop
PairNames(q) ==
    IF engine \in LossEngines THEN {LossKey(keys[kidx[q]]), AccKey(keys[kidx[q]])}
    ELSE {"max_eig", "min_eig"}
\* rank q has recorded a result at cell c of field n and not yet reduced it
Unmerged(q, n, c) == pc[q] = "reduce" /\ c = Ind(q) /\ n \in PairNames(q)

\* C6: every write of the fields in the cell loop of a synchronized engine is
\* made by rank 0, when no reduction call of rank 0 is pending, and every
\* value it writes is the value every rank holds for that cell in its merged
\* array (every cell but one the rank has recorded since the last reduction).
C6_CommitIsMerged ==
    [][ \A r \in Ranks : (pc[r] = "commit" /\ pc'[r] # "commit") =>
          /\ r = 0
          /\ post[r] = NoPost
          /\ \A n \in CommitNames : \A c \in Cells(grid) : \A q \in Ranks :
                n \in DOMAIN mem[q] => (f'[n][c] = mem[q][n][c] \/ Unmerged(q, n, c)) ]_vars

\* rank 0 is about to write while another rank has already recorded the
\* result of its next cell
C6_Witness ==
    /\ engine \in SyncEngines
    /\ pc[0] = "commit"
    /\ \E q \in Ranks \ {0} : pc[q] = "reduce" /\ mem[q] # mem[0]

\* the value the evaluator gives for field n at the coordinate of cell c
Expected(n, c) ==
    LET xy == CoordOfCell(grid, c)
    IN CASE n = "train_loss" -> LossAt(xy, "train")
         [] n = "train_acc" -> AccAt(xy, "train")
         [] n = "test_loss" -> LossAt(xy, "test")
         [] n = "test_acc" -> AccAt(xy, "test")
         [] n = "max_eig" -> MaxEigAt(xy)
         [] n = "min_eig" -> MinEigAt(xy)

\* C7: a run that follows a completed run against the same store calls the
\* evaluator for no cell (the evaluator returning no sentinel value).
C7_SecondRunIdle ==
    (prev = "completed" /\ special[2] = "plain") => \A r \in Ranks : evals[r] = {}

\* the cells a rank has finished in the current run
FinishedCells(r) == {inds[r][i] : i \in 1..count[r]}

\* C8: once a run has ended because the evaluator raised, every cell finished
\* before holds on disk, in every field, the value evaluated for it (the
\* evaluator returning no sentinel value and nothing below it).
C8_FinishedCellsOnDisk ==
    (special[2] = "plain" /\ RunOver /\ \E r \in Ranks : pc[r] = "raised" /\ evals[r] # {}) =>
        \A r \in Ranks : \A c \in FinishedCells(r) : \A n \in CommitNames :
            f[n][c] = Expected(n, c)

\* C9: in the engines without reduction, once cell k is finished the store
\* holds the values of cells 0..k.
C9_StoredAfterEachCell ==
    engine \in SeqEngines =>
        \A r \in Ranks : \A c \in FinishedCells(r) : \A n \in CommitNames :
            f[n][c] = mem[r][n][c]

\* the value a field is created with
InitValue(n) ==
    IF n = "min_eig" THEN MinEigInit ELSE IF n = "max_eig" THEN MaxEigInit ELSE LossInit

\* C10: when a run of an engine without reduction has returned, every cell has
\* been evaluated for every pair, every field on disk has one value per grid
\* cell, the value the evaluator gives at that cell's coordinate, and, unless
\* the evaluator returned the sentinel, no cell is left at the sentinel.
C10_SingleWorkerFills ==
    (engine \in SeqEngines /\ pc[0] = "done") =>
        /\ evals[0] = Cells(grid) \X (1..NumPairs)
        /\ \A n \in CommitNames :
              /\ DOMAIN f[n] = Cells(grid)
              /\ \A c \in Cells(grid) : f[n][c] = Expected(n, c)
              /\ special[2] # "sentinel" => \A c \in Cells(grid) : f[n][c] # InitValue(n)

\* crunch_2 has returned from a 2 x 2 grid with both dataloaders
C10_Witness ==
    /\ engine = "crunch_2"
    /\ pc[0] = "done"
    /\ grid = <<2, 2>>
    /\ Len(keys) = 2
    /\ special[2] = "plain"
    /\ \A c \in Cells(grid) : f["train_loss"][c] # LossInit

\* C11: in a run of a synchronized engine rank 0 writes the arrays back only
\* when every rank has computed its index list, and every rank computes its
\* list from the cells that were unfilled when the run started, so all ranks
\* split the same set.
C11_Step ==
    engine \in SyncEngines =>
        /\ (pc[0] = "commit" /\ pc'[0] # "commit") =>
               \A q \in Ranks : Partitioned(q)
        /\ \A r \in Ranks : (pc[r] = "partition" /\ pc'[r] = "loop") =>
               /\ UnfilledSet(mem[r][JobField]) = Unfilled0
               /\ DOMAIN inds_nums'[r] = Ranks
C11_CommitAfterAllPartitioned == [][C11_Step]_vars

\* rank 0 of a two-rank run over a partly filled store is about to write
C11_Witness ==
    /\ engine \in SyncEngines
    /\ nproc = 2
    /\ pc[0] = "commit"
    /\ Unfilled0 # Cells(grid)
    /\ \A q \in Ranks : Partitioned(q)

\* the position of cell c in the ascending sequence of the unfilled cells
JobUnfilled == {c \in DOMAIN job.vals : job.vals[c] = 0 - 1}
JobPosition(c) == Cardinality({d \in JobUnfilled : d < c})

\* C12: get_job_indices gives rank r of P the unfilled flat indices at the
\* positions r, r+P, r+2P, ... of their ascending sequence, in that order; for
\* an unfilled 3x3 field and two ranks these are [0,2,4,6,8] and [1,3,5,7],
\* and a single rank receives all unfilled indices.
C12_RoundRobin ==
    job.inds # Off =>
        /\ \A r \in DOMAIN job.inds :
              /\ \A i \in DOMAIN job.inds[r] :
                    /\ job.inds[r][i] \in JobUnfilled
                    /\ JobPosition(job.inds[r][i]) = r + (i - 1) * job.nproc
              /\ Len(job.inds[r]) = Cardinality({c \in JobUnfilled : JobPosition(c) % job.nproc = r})
        /\ (job.nproc = 2 /\ JobUnfilled = 0..8) =>
              /\ job.inds[0] = <<0, 2, 4, 6, 8>>
              /\ job.inds[1] = <<1, 3, 5, 7>>
        /\ job.nproc = 1 => Range(job.inds[0]) = JobUnfilled

\* the 3x3 example has been computed
C12_Witness ==
    /\ job.inds # Off
    /\ job.nproc = 2
    /\ JobUnfilled = 0..8

\* the value every cell of a dataset created by this step holds
CreatedWith(mx, mn) ==
    \A n \in (DOMAIN f') \ (DOMAIN f) : \A c \in DOMAIN f'[n] :
        f'[n][c] = (IF n = "max_eig" THEN mx ELSE IF n = "min_eig" THEN mn ELSE 0 - 1)

\* C13 (as stated): a field created on a store that lacks it holds in every
\* cell -1 for loss and accuracy, +1 for max_eig and -1 for min_eig.
C13_SentinelsAsStated == [][CreatedWith(1, 0 - 1)]_vars

\* C13 (amended): a field created on a store that lacks it holds in every
\* cell -1 for loss and accuracy, -1 for max_eig and +1 for min_eig.
C13_Sentinels == [][CreatedWith(0 - 1, 1)]_vars

\* rank 0 of a Hessian engine has just created both fields on an empty store
C13_Witness ==
    /\ engine \notin LossEngines
    /\ f0 = <<>>
    /\ DOMAIN f = {"max_eig", "min_eig"}
    /\ pc[0] \in {"partition", "mesh"}

\* the names one turn of the field initialisation of rank r deals with
InitNames(r) ==
    IF engine \in LossEngines
    THEN {LossKey(keys[kidx[r]]), AccKey(keys[kidx[r]])}
    ELSE {"max_eig", "min_eig"}

\* one turn of the field initialisation of rank 0 has run to its end
LeaderInitStep == pc[0] = "init" /\ pc'[0] # "killed" /\ (pc'[0] # "init" \/ kidx'[0] # kidx[0])

\* C14: the field initialisation (here: of rank 0, which may write) treats
\* every name on its own and never raises: a name absent from the store is
\* created there with the sentinel, a name present is loaded unchanged.
C14_InitStep ==
    LeaderInitStep =>
        /\ pc'[0] # "raised"
        /\ \A n \in InitNames(0) :
              /\ n \in DOMAIN f' /\ n \in DOMAIN mem'[0]
              /\ mem'[0][n] = f'[n]
              /\ n \in DOMAIN f => f'[n] = f[n]
C14_InitPerField == [][C14_InitStep]_vars

\* the axes a request needs in the file
RequiredAxes(a) == IF a.y = NoY THEN {"xcoordinates"} ELSE {"xcoordinates", "ycoordinates"}

\* C15: setup_surface_file writes xcoordinates, ycoordinates (for a request
\* with a y resolution) and dir_file into a file that does not hold them, and
\* reports a file as already set up only if it holds every axis the request
\* needs.
C15_SetupContract ==
    /\ ret = "written" =>
          /\ surf.exists
          /\ RequiredAxes(args) \cup {"dir_file"} \subseteq DOMAIN surf.data
          /\ surf.data["dir_file"] = args.dir_file
          /\ surf.data["xcoordinates"] = Linspace(args.x)
          /\ args.y # NoY => surf.data["ycoordinates"] = Linspace(args.y)
    /\ ret = "already set up" => RequiredAxes(args) \subseteq DOMAIN surf.data

AxisNames == {"xcoordinates", "ycoordinates"}

\* C16: no setup_surface_file call and no engine run removes, resizes or
\* rewrites a coordinate array that is in the file.
C16_Step ==
    \A n \in AxisNames \cap DOMAIN surf.data :
        /\ n \in DOMAIN surf'.data
        /\ surf'.data[n] = surf.data[n]
        /\ Len(surf'.data[n]) = Len(surf.data[n])
C16_AxesKept == [][C16_Step]_vars

\* a file with both axes and written fields has seen a call that asked for
\* another resolution
C16_Witness ==
    /\ ret = "already set up"
    /\ AxisNames \subseteq DOMAIN surf.data
    /\ surf.data["xcoordinates"] # Linspace(args.x)
    /\ args.y # NoY /\ surf.data["ycoordinates"] # Linspace(args.y)
    /\ "train_loss" \in DOMAIN surf.data
    /\ surf.data["train_loss"] # Filled(SurfGrid(surf.data), LossInit)

\* the flat indices of an array of shape (xnum,) or (xnum, ynum)
ShapeCells == IF grid[2] = 0 THEN 0..(grid[1] - 1) ELSE 0..(grid[1] * grid[2] - 1)

\* C17: every field array, in the memory of a rank, handed to a reduce or
\* stored in the file, has the shape given by the coordinates of the file:
\* xnum cells without a y axis, xnum * ynum cells with one.
C17_FieldShape ==
    /\ \A n \in DOMAIN f : DOMAIN f[n] = ShapeCells
    /\ \A r \in Ranks :
          /\ \A n \in DOMAIN mem[r] : DOMAIN mem[r][n] = ShapeCells
          /\ post[r] # NoPost => DOMAIN post[r].arr = ShapeCells

\* two ranks on a 2 x 2 grid: fields were created, reduced and committed
C17_Witness ==
    /\ engine \in SyncEngines
    /\ nproc = 2
    /\ grid = <<2, 2>>
    /\ f0 = <<>>
    /\ pc[0] = "loop" /\ count[0] > 0
    /\ \E n \in DOMAIN f : f[n] # Filled(grid, InitValue(n))

\* C18: rank 0 evaluates no cell while arrays it wrote back have not been
\* flushed: every write-back is followed by a flush before the next cell.
C18_FlushBeforeNextCell == pc[0] = "eval" => ~unflushed

\* a string of the form min:max:num: three parts, each a number
WellFormed(s) == Len(s) = 3 /\ \A i \in 1..3 : s[i] \in {"0", "1"}
Malformed(e) == ~WellFormed(e.x) \/ (e.y # <<>> /\ ~WellFormed(e.y))

\* C19: an entry point called with an x or y resolution that is not of the
\* form min:max:num never gets past the resolution check, and when it has
\* failed nothing was created, opened or loaded.
C19_FailBeforeIO ==
    Malformed(entry) =>
        /\ entry.pc \notin {"load", "files", "compute"}
        /\ entry.error = "Improper format" => entry.io = {}

\* C20: with a number of directions that does not fit the grid the run fails
\* before work begins: no field is created in the file and no cell is
\* evaluated.
C20_MismatchFailsFirst ==
    ~DirectionsFit =>
        /\ DOMAIN f = {}
        /\ \A r \in Ranks : evals[r] = {} /\ pc[r] # "eval"

\* the coordinate of flat index c: x[c], or (x[c div ynum], y[c mod ynum])
CoordAt(c) == IF grid[2] = 0 THEN <<c>> ELSE <<c \div grid[2], c % grid[2]>>

\* C21: whenever an engine calls the evaluator for a cell, the net holds the
\* parameters of that cell's coordinate, whatever cells were visited before.
C21_NoDrift ==
    \A r \in Ranks : pc[r] = "eval" => net[r] = CoordAt(Ind(r))

\* a rank that has evaluated a cell before evaluates cell 2 or a later one
C21_Witness ==
    \E r \in Ranks :
        /\ pc[r] = "eval"
        /\ count[r] >= 1
        /\ Ind(r) >= 2
        /\ evals[r] # {}

\* C22: after a KeyboardInterrupt during the load or the evaluation of model
\* i no later model file is loaded, and what is returned are the eigenvalues
\* of the models finished before.
C22_InterruptEndsLoop ==
    \A i \in batch.interrupted \ {0} :
        /\ \A j \in batch.loaded : j <= i
        /\ batch.pc = "returned" => batch.max_eig = [k \in 1..(i - 1) |-> ModelMaxEig(k)]

C24_FirstFieldDecides ==
    /\ \A r \in Ranks : \A c \in EvaluatedCells(r) : f0["train_loss"][c] = Sentinel
    /\ Completed =>
           \A n \in DOMAIN f : \A c \in Cells(grid) :
               f[n][c] = Sentinel \/ f[n][c] = Expected(n, c)

\* a completed run over a file whose train_loss was filled in some cells and
\* not in others: the test fields are filled exactly where train_loss was not
C24_Witness ==
    /\ Completed
    /\ run = 1
    /\ \E c \in Cells(grid) : /\ c \notin Unfilled0
                               /\ f["train_loss"][c] # Sentinel
                               /\ f["test_loss"][c] = Sentinel
    /\ \E c \in Unfilled0 : f["test_loss"][c] = Expected("test_loss", c) /\ f["test_loss"][c] # Sentinel

\* C25: with two or more ranks, when rank 0 is about to write after the
\* reductions of a cell it evaluated, every rank's arrays hold at that cell,
\* for every field written, the value the evaluator returned for it.
C25_MergeKeepsValue ==
    (engine \in SyncEngines /\ nproc >= 2 /\ pc[0] = "commit") =>
        \A q \in Ranks : \A n \in CommitNames : mem[q][n][Ind(0)] = Expected(n, Ind(0))

\* C26: when a run of a synchronized engine has completed, the file holds
\* for every field the array every rank holds in memory; rank 0 is given at
\* least as many cells as any other rank and goes through no trailing round.
C26_DiskIsMerged ==
    engine \in SyncEngines =>
        /\ (\A r \in Ranks : Partitioned(r)) => Len(inds[0]) = MostCells /\ extra[0] = 0
        /\ Completed => \A r \in Ranks : \A n \in CommitNames : mem[r][n] = f[n]

\* a completed run of two ranks in which rank 1 had fewer cells than rank 0,
\* and the file holds the result of the last cell of rank 0
C26_Witness ==
    /\ engine \in SyncEngines
    /\ Completed
    /\ \E r \in Ranks : extra[r] >= 1 /\ Len(inds[r]) < Len(inds[0])
    /\ Len(inds[0]) >= 1
    /\ f[JobField][inds[0][Len(inds[0])]] # Sentinel

\* C27: in crunch with the train and the test pair, the arrays that one
\* collective reduction combines are arrays of the same field on every rank.
C27_SameFieldReduced ==
    (engine = "crunch" /\ Len(keys) = 2 /\ \A q \in Ranks : post[q] # NoPost) =>
        \A r, q \in Ranks : post[r].name = post[q].name

\* C28: in crunch_2 and crunch_hessian_eigs_2 the coordinate used for flat
\* index k of a grid of any shape (xnum, ynum) is (x[k div ynum], y[k mod ynum]),
\* the coordinate of the cell [k div ynum, k mod ynum] that receives the
\* result; on a 1-D grid it is x[k].
C28_CoordOfIndex ==
    mesh.count > 0 =>
        LET k == mesh.count - 1
            g == mesh.grid
        IN /\ g[2] = 0 => mesh.coord = <<XAxis(g)[k]>> /\ mesh.cell = <<k>>
           /\ g[2] > 0 =>
                  /\ mesh.coord = <<XAxis(g)[k \div g[2]], YAxis(g)[k % g[2]]>>
                  /\ mesh.coord = <<XAxis(g)[mesh.cell[1]], YAxis(g)[mesh.cell[2]]>>
                  /\ MeshCoord(g, k) = mesh.cell

\* the last index of a grid with xnum = 2 and ynum = 3 has been resolved
C28_Witness == mesh.grid = <<2, 3>> /\ mesh.count = 6 /\ mesh.cell = <<1, 2>>

\* C29: no rank has loaded the direction file or opened the surface file
\* while rank 0 is still setting the two files up; what a rank reads is a
\* file that is set up; only rank 0 runs setup_direction and
\* setup_surface_file.
C29_SetupBeforeUse ==
    /\ \A e \in boot.ran : e[1] = 0
    /\ \A e \in boot.read : e[3] = "ready"
    /\ \A r \in BootRanks :
          StageNo(boot.pc[r]) > StageNo("load") => boot.pc[0] \notin {"dir", "surf"}

\* three ranks, files absent at the start: rank 2 has opened the surface file
\* that rank 0 set up
C29_Witness ==
    /\ Cardinality(BootRanks) = 3
    /\ boot.ran = {<<0, "setup_direction">>, <<0, "setup_surface_file">>}
    /\ <<2, "dir_file", "ready">> \in boot.read
    /\ boot.pc[2] = "opened"
    /\ boot.pc[0] # "opened"

\* C30: a y resolution min:max:num with numeric min and max and num >= 1 (the
\* x resolution being well formed) is accepted by the resolution check, also
\* when its min or max is 0.
C30_ZeroBoundAccepted ==
    (WellFormed(entry.x) /\ WellFormed(entry.y) /\ Float(entry.y[3]) >= 1) =>
        entry.error # "Improper format"

\* C31: whatever args.dir_type is, every evaluator call of an engine is made
\* on a net that holds the parameters of the coordinate of the cell the result
\* is recorded for.
C31_EvaluatedAtCoord == \A e \in loop.evals : e[2] = <<e[1]>>

\* C32: called with a train dataloader, plot_surface_list does not fail in
\* get_data_from_file, whatever the plot type (1-D grid, 2-D grid, 2-D grid
\* with a projection file), and when it returns all_data has an entry for
\* every epoch.
C32_DataForEveryPlotType ==
    plist.train =>
        /\ plist.error \notin {"UnboundLocalError", "AssertionError"}
        /\ plist.pc = "returned" => plist.all_data = Range(plist.epochs)

\* the second model chosen for the epoch in hand, once the chain has run
SecondChosen == plist.pc \in {"load", "crunch", "data"}
\* C33: with direction 'i-1' the second model is the checkpoint before the
\* epoch's, with 'i+1' the one after it; the call fails when there is none,
\* and with a direction outside the five known ones it fails before the model
\* of the epoch is loaded.
C33_AdjacentCheckpoint ==
    /\ (SecondChosen /\ plist.direction = "i-1") =>
           Epoch(plist) >= 1 /\ plist.model_file2 = Epoch(plist) - 1
    /\ (SecondChosen /\ plist.direction = "i+1") =>
           Epoch(plist) + 1 < plist.num /\ plist.model_file2 = Epoch(plist) + 1
    /\ plist.direction = "other" => plist.loaded = {}

\* C34: train called with a data module of the caller gets to the
\* construction of the trainer as it does with data_module = None (it fails
\* only on the assert on d_model and n_heads) and sets up the same callbacks.
C34_SuppliedDataModule ==
    fit.supplied =>
        /\ fit.pc = "failed" => fit.error = "AssertionError"
        /\ fit.pc = "constructed" => fit.callbacks = Callbacks(fit.h, FALSE)

\* C35: a call of on_validation_epoch_end raises KeyboardInterrupt exactly
\* when es_step >= patience; a call with es_step below the patience raises
\* nothing and leaves es_step as it was; training is interrupted exactly when
\* a call has raised.
C35_StopsAtPatience ==
    /\ \A c \in stopper.calls :
          /\ c[4] <=> (c[2] >= stopper.patience)
          /\ c[3] = c[2]
    /\ stopper.pc = "interrupted" <=> \E c \in stopper.calls : c[4]
    /\ stopper.pc = "finished" => \A c \in stopper.calls : c[2] < stopper.patience

\* the callback let one epoch pass and raised at the next, where es_step had
\* just reached the patience
C35_Witness ==
    /\ stopper.pc = "interrupted"
    /\ stopper.patience >= 1
    /\ \E c, d \in stopper.calls :
          /\ c[1] < d[1]
          /\ ~c[4] /\ c[2] = stopper.patience - 1
          /\ d[4] /\ d[2] = stopper.patience

====
